---- MODULE Spec2Model ----
(***************************************************************************)
(* JSON-RPC 2.0 codec for net/rpc (powerman/rpc-codec).                    *)
(*                                                                         *)
(* Raw JSON and Go strings are sequences of byte chunks: the first element *)
(* is the first byte and the last element is the last byte, the elements   *)
(* in between are runs of bytes.  A *json.RawMessage that is nil is the    *)
(* empty sequence (the decoder never produces an empty RawMessage).        *)
(***************************************************************************)
EXTENDS Integers, Sequences, FiniteSets, TLC

\* ------------------------------------------------------------------ bounds
\* requests one server codec decodes successfully
MaxReqs == 2

\* calls one rpc.Client sends through a client codec
MaxCalls == 2

\* notifications sent through a client codec
MaxNotes == 1

\* requests posted through one HTTP client connection
MaxPosts == 2

\* ------------------------------------------------------------------ raw JSON
Nil == <<>>

\* var null = json.RawMessage([]byte("null"))
null == <<"n", "ull">>

Str(s) == <<"\"", s, "\"">>

V20 == Str("2.0")

V10 == Str("1.0")

\* the bytes encoding/json writes for '<', '>' and '&' inside a Marshaler's output
EscapeHTML(chunk) ==
  CASE chunk = "<" -> "\\u003c"
    [] chunk = ">" -> "\\u003e"
    [] chunk = "&" -> "\\u0026"
    [] OTHER -> chunk

\* encoding/json compact(): insignificant white space is dropped, HTML is escaped
compact(raw) ==
  LET kept == SelectSeq(raw, LAMBDA c : c # " ")
  IN  [i \in DOMAIN kept |-> EscapeHTML(kept[i])]

\* whether compact() accepts the bytes (a chunk "?" is a run that is no JSON)
ValidJSON(raw) == raw # Nil /\ \A i \in DOMAIN raw : raw[i] # "?"

\* ------------------------------------------------------------------ errors
errParseCode == "-32700"

errRequestCode == "-32600"

errMethodCode == "-32601"

errParamsCode == "-32602"

errInternalCode == "-32603"

errServerCode == "-32000"

\* (*Error).Error(): the JSON of Error{Code, Message}; message is a chunk sequence
ErrorJSON(code, message) ==
  <<"{", "\"code\":", code, ",\"message\":\"">> \o message \o <<"\"", "}">>

HasPrefix(message, prefix) == Len(message) >= 1 /\ message[1] = prefix

newError_flat(message) == ErrorJSON(errServerCode, message)

\* newError: the code is chosen from the message's prefix
newError(message) ==
  IF \/ HasPrefix(message, "rpc: service/method request ill-formed")
     \/ HasPrefix(message, "rpc: can't find service")
     \/ HasPrefix(message, "rpc: can't find method")
  THEN ErrorJSON(errMethodCode, message)
  ELSE ErrorJSON(errServerCode, message)

errParse == ErrorJSON(errParseCode, <<"Parse error">>)

errRequest_asParse == errParse

errRequest == ErrorJSON(errRequestCode, <<"Invalid request">>)

\* ------------------------------------------------------------------ server: wire schema
NoObj == [k \in {} |-> Nil]

\* a decoded top-level JSON value: its first byte, its members when it is an
\* object (key -> raw value), its elements when it is an array
ObjV(o) == [top |-> "{", o |-> o, elems |-> <<>>]

ArrV(elems) == [top |-> "[", o |-> NoObj, elems |-> elems]

ScalarV(b) == [top |-> b, o |-> NoObj, elems |-> <<>>]

IsString(raw) == raw # Nil /\ raw[1] = "\""

\* lookup in a map[string]*json.RawMessage: nil for a missing key and for JSON null
Ptr(o, k) == IF k \in DOMAIN o /\ o[k] # null THEN o[k] ELSE Nil

\* a string field of a struct: set from a JSON string, left "" otherwise
StringField(o, k) == IF k \in DOMAIN o /\ IsString(o[k]) THEN o[k][2] ELSE ""

\* json.Unmarshal(raw, req(r)) fails: not an object (null is a no-op), or a
\* string field given a value that is neither a string nor null
StructErr(v) ==
  \/ v.top \notin {"{", "n"}
  \/ \E k \in {"jsonrpc", "method"} :
       k \in DOMAIN v.o /\ v.o[k] # null /\ ~IsString(v.o[k])

serverRequest(ver, me, p, i) == [Version |-> ver, Method |-> me, Params |-> p, Id |-> i]

\* (*serverRequest).reset
reset == serverRequest("", "", Nil, Nil)

\* the id check of the strict validator: true, false, objects and arrays are rejected
BadId(id) == Len(id) = 0 \/ id[1] \in {"t", "f", "{", "["}

\* the params check of the strict validator: an array or an object
BadParams(p) == p = Nil \/ p[1] \notin {"[", "{"}

BadKeyCount_loose(n, okId, okParams) == n > 4

\* the key-count rule of the strict validator
BadKeyCount(n, okId, okParams) ==
  \/ n = 3 /\ ~(okId \/ okParams)
  \/ n = 4 /\ ~(okId /\ okParams)
  \/ n > 4

\* (*serverRequest).UnmarshalJSON: err is TRUE for "bad request"
UnmarshalJSON(v) ==
  LET o == v.o
      r == serverRequest(StringField(o, "jsonrpc"), StringField(o, "method"),
                         Ptr(o, "params"), Ptr(o, "id"))
      okId == "id" \in DOMAIN o
      okParams == "params" \in DOMAIN o
      id == IF okId /\ r.Id = Nil THEN null ELSE r.Id
      bad == \/ StructErr(v)
             \/ Ptr(o, "jsonrpc") = Nil
             \/ Ptr(o, "method") = Nil
             \/ BadKeyCount(Cardinality(DOMAIN o), okId, okParams)
             \/ r.Version # "2.0"
             \/ (okParams /\ BadParams(r.Params))
             \/ (okId /\ BadId(id))
  IN  [err |-> bad, req |-> IF StructErr(v) THEN reset ELSE [r EXCEPT !.Id = id]]

serverResponse(id, result, error) == [Id |-> id, Result |-> result, Error |-> error]

\* json.Encoder.Encode of a serverResponse or of a reply array: ok is FALSE when
\* Marshal fails (nothing is written then); Result and Error are omitted when nil
EncodeResponse(resp) ==
  [ok |-> /\ ValidJSON(resp.Id)
          /\ (resp.Result # Nil => ValidJSON(resp.Result))
          /\ (resp.Error # Nil => ValidJSON(resp.Error)),
   msg |-> [kind |-> "object", id |-> compact(resp.Id), result |-> compact(resp.Result),
            error |-> compact(resp.Error), elems |-> <<>>]]

EncodeReplies(replies) ==
  [ok |-> TRUE,
   msg |-> [kind |-> "array", id |-> Nil, result |-> Nil, error |-> Nil, elems |-> replies]]

\* ------------------------------------------------------------------ server: the host and its services
\* the methods net/rpc finds: the test service and the JSONRPC2 service that
\* NewServerCodec registers
Registered(method) == method \in {"Svc.Sum", "JSONRPC2.Batch"}

\* error string of net/rpc for a method it cannot find
CantFind(method) == <<"rpc: can't find method", " ", method>>

\* the elements of a raw JSON array, one chunk each
Elements(raw) == SubSeq(raw, 2, Len(raw) - 1)

\* json.Unmarshal of params into the argument of Svc.Sum ([2]int) succeeds
FitsArg(params) ==
  /\ params[1] = "["
  /\ \A i \in DOMAIN Elements(params) : Elements(params)[i] \in {"3", "5"}

\* batch elements: "N" is a notification, "C1" and "C2" are calls with ids 1 and 2
IsNotifyElement(e) == e = "N"

\* the bytes a sub-codec writes for one batch element (nothing for a notification)
SubReply(e) == IF e = "C1" THEN "R1" ELSE "R2"

\* JSONRPC2.Batch: the replies of the elements that are not notifications, in order
Batch(reqs) ==
  LET kept == SelectSeq(reqs, LAMBDA e : ~IsNotifyElement(e))
  IN  [i \in DOMAIN kept |-> SubReply(kept[i])]

\* ------------------------------------------------------------------ state
VARIABLES
  seq,        \* serverCodec.seq
  pending,    \* serverCodec.pending: sequence number -> raw id (Nil for a nil pointer)
  req,        \* serverCodec.req, the work space
  closed,     \* the connection of the server codec was closed
  wire,       \* what the server codec wrote to the connection, in order
  rd,         \* the host's read loop: "header", "body" or "stopped"
  calls,      \* the host's requests in flight: sequence number -> call
  hist,       \* history: sequence number -> the decoded value it was assigned to
  ret         \* history: the last operation of the server codec, the error it returned
              \* and, for ReadRequestHeader, the value it decoded
              \* and the sequence number it handed to the host (0 for none)

svars == <<seq, pending, req, closed, wire, rd, calls, hist, ret>>

\* var raw json.RawMessage before Decode filled it
NoRaw == ScalarV("")

Returned(op, err, s, v) == [op |-> op, err |-> err, seq |-> s, v |-> v]

\* NewServerCodec
InitServer ==
  /\ seq = 0
  /\ pending = [s \in {} |-> Nil]
  /\ req = reset
  /\ closed = FALSE
  /\ wire = <<>>
  /\ rd = "header"
  /\ calls = [s \in {} |-> Nil]
  /\ hist = [s \in {} |-> Nil]
  /\ ret = Returned("NewServerCodec", "", 0, NoRaw)

\* conn.Write through the encoder: on a closed connection nothing is written
Write(w, by, enc) ==
  IF enc.ok /\ ~closed THEN Append(w, [by |-> by, msg |-> enc.msg]) ELSE w

NextSeq_stuck(s) == s

\* c.seq++
NextSeq(s) == s + 1

\* the staged request of a batch: the raw array is the params, the id is &null
BatchRequest(v) == serverRequest("2.0", "JSONRPC2.Batch", <<"[">> \o v.elems \o <<"]">>, null)

\* serverCodec.ReadRequestHeader; in.dec is what dec.Decode(&raw) returns
ReadRequestHeader(in) ==
  /\ rd = "header"
  /\ seq < MaxReqs \/ in.dec = "EOF"
  /\ LET dec == IF closed THEN "ErrClosed" ELSE in.dec
         u == UnmarshalJSON(in.v)
     IN  IF dec # "ok"
         THEN /\ wire' = IF dec = "SyntaxError"
                         THEN Write(wire, 0, EncodeResponse(serverResponse(null, Nil, errParse)))
                         ELSE wire
              /\ ret' = Returned("ReadRequestHeader", dec, 0, NoRaw)
              /\ rd' = "stopped"
              /\ UNCHANGED <<seq, pending, req, hist>>
         ELSE IF in.v.top # "[" /\ u.err
         THEN /\ wire' = Write(wire, 0, EncodeResponse(serverResponse(null, Nil, errRequest)))
              /\ ret' = Returned("ReadRequestHeader", "bad request", 0, in.v)
              /\ rd' = "stopped"
              /\ req' = u.req
              /\ UNCHANGED <<seq, pending, hist>>
         ELSE LET staged == IF in.v.top = "[" THEN BatchRequest(in.v) ELSE u.req
              IN  /\ seq' = NextSeq(seq)
                  /\ pending' = (seq' :> staged.Id) @@ pending
                  /\ req' = [staged EXCEPT !.Id = Nil]
                  /\ hist' = (seq' :> in.v) @@ hist
                  /\ ret' = Returned("ReadRequestHeader", "", seq', in.v)
                  /\ rd' = "body"
                  /\ wire' = wire
  /\ UNCHANGED <<closed, calls>>

\* serverCodec.ReadRequestBody(x): the error it returns, Nil for none
ReadRequestBodyErr(r, xIsNil) ==
  IF xIsNil \/ r.Params = Nil THEN Nil
  ELSE IF r.Method = "JSONRPC2.Batch"
  THEN IF r.Params[1] # "["
       THEN ErrorJSON(errParamsCode, <<"json: cannot unmarshal">>)
       ELSE IF Len(Elements(r.Params)) = 0 THEN errRequest ELSE Nil
  ELSE IF ~FitsArg(r.Params)
       THEN ErrorJSON(errParamsCode, <<"json: cannot unmarshal">>)
       ELSE Nil

\* net/rpc readRequest after a header was read: it looks the method up, calls
\* ReadRequestBody (with nil when the method is unknown) and starts the call
ReadRequestBody ==
  /\ rd = "body"
  /\ LET found == Registered(req.Method)
         e == ReadRequestBodyErr(req, ~found)
         isBatch == found /\ e = Nil /\ req.Method = "JSONRPC2.Batch" /\ req.Params # Nil
         call == [method |-> req.Method,
                  phase |-> IF ~found THEN "nomethod" ELSE IF e # Nil THEN "bodyerr" ELSE "ready",
                  err |-> IF ~found THEN CantFind(req.Method) ELSE e,
                  reqs |-> IF isBatch THEN Elements(req.Params) ELSE <<>>]
     IN  /\ calls' = (seq :> call) @@ calls
         /\ ret' = Returned("ReadRequestBody", IF e = Nil THEN "" ELSE "error", 0, NoRaw)
  /\ rd' = "header"
  /\ UNCHANGED <<seq, pending, req, closed, wire, hist>>

\* the reply argument of WriteResponse
NilX == [kind |-> "nil", raw |-> Nil, replies |-> <<>>]

ValueX(raw) == [kind |-> "value", raw |-> raw, replies |-> <<>>]

InvalidRequestX == [kind |-> "invalidRequest", raw |-> <<"{", "}">>, replies |-> <<>>]

RepliesX(replies) == [kind |-> "replies", raw |-> Nil, replies |-> replies]

rpcResponse(s, method, err) == [Seq |-> s, ServiceMethod |-> method, Error |-> err]

\* error strings a service method returns
HandlerErrors ==
  { <<"b", "oom">>,                               \* a plain message
    ErrorJSON("42", <<"custom">>),                \* jsonrpc2.NewError(42, "custom")
    <<"{", " ", "\"code\":1,\"message\":\"m\"", "}">>,  \* a JSON object with white space
    <<"{", "?", "}">> }                           \* framed by braces but no JSON

\* what net/rpc passes to WriteResponse for a call
HostOutcomes(call) ==
  IF call.phase # "ready"
  THEN {[Error |-> call.err, x |-> InvalidRequestX]}
  ELSE IF call.method = "JSONRPC2.Batch"
  THEN {[Error |-> Nil, x |-> RepliesX(Batch(call.reqs))]}
  ELSE {[Error |-> Nil, x |-> x] : x \in {ValueX(<<"8">>), ValueX(<<"?">>)}}
       \cup {[Error |-> e, x |-> InvalidRequestX] : e \in HandlerErrors}

IsBatchReply_never(r, x) == FALSE

\* the batch branch of WriteResponse
IsBatchReply(r, x) == r.ServiceMethod = "JSONRPC2.Batch" /\ x.kind = "replies"

IsNotification_null(b) == b = Nil \/ b = null

\* "Notification. Do not respond.": the stored pointer is nil
IsNotification(b) == b = Nil

Framed(e) == e[1] = "{" /\ e[Len(e)] = "}"

\* the response object WriteResponse builds for raw id b
BuildResponse(b, r, x) ==
  IF r.Error = Nil
  THEN serverResponse(b, IF x.kind = "nil" THEN null ELSE x.raw, Nil)
  ELSE IF Framed(r.Error)
  THEN serverResponse(b, Nil, r.Error)
  ELSE serverResponse(b, Nil, newError(r.Error))

Respond_idFirst(b, r, x) ==
  IF IsNotification(b)
  THEN [emit |-> FALSE, enc |-> EncodeReplies(<<>>)]
  ELSE IF IsBatchReply(r, x)
  THEN [emit |-> Len(x.replies) # 0, enc |-> EncodeReplies(x.replies)]
  ELSE [emit |-> TRUE, enc |-> EncodeResponse(BuildResponse(b, r, x))]

\* what WriteResponse hands to the encoder once the entry b was found: emit is
\* FALSE when it returns without encoding
Respond(b, r, x) ==
  IF IsBatchReply(r, x)
  THEN [emit |-> Len(x.replies) # 0, enc |-> EncodeReplies(x.replies)]
  ELSE IF IsNotification(b)
  THEN [emit |-> FALSE, enc |-> EncodeReplies(<<>>)]
  ELSE [emit |-> TRUE, enc |-> EncodeResponse(BuildResponse(b, r, x))]

Remove_keep(table, s) == table

\* delete(c.pending, r.Seq)
Remove(table, s) == [k \in DOMAIN table \ {s} |-> table[k]]

\* serverCodec.WriteResponse(r, x)
WriteResponse(r, x) ==
  /\ IF r.Seq \notin DOMAIN pending
     THEN /\ ret' = Returned("WriteResponse", "invalid sequence number in response", 0, NoRaw)
          /\ UNCHANGED <<pending, wire>>
     ELSE LET out == Respond(pending[r.Seq], r, x)
          IN  /\ pending' = Remove(pending, r.Seq)
              /\ wire' = IF out.emit THEN Write(wire, r.Seq, out.enc) ELSE wire
              /\ ret' = Returned("WriteResponse",
                                 IF out.emit /\ (closed \/ ~out.enc.ok) THEN "encode" ELSE "",
                                 0, NoRaw)
  /\ UNCHANGED <<seq, req, closed, hist>>

\* net/rpc sendResponse for a call in flight
SendResponse(s) ==
  /\ s \in DOMAIN calls
  /\ calls[s].phase # "done"
  /\ \E o \in HostOutcomes(calls[s]) :
       WriteResponse(rpcResponse(s, calls[s].method, o.Error), o.x)
  /\ calls' = [calls EXCEPT ![s].phase = "done"]
  /\ rd' = rd

\* a WriteResponse for a sequence number the host has no call in flight for
StrayResponse(s) ==
  /\ s \notin DOMAIN pending
  /\ WriteResponse(rpcResponse(s, "Svc.Sum", Nil), ValueX(<<"8">>))
  /\ UNCHANGED <<calls, rd>>

\* serverCodec.Close
Close ==
  /\ ~closed
  /\ closed' = TRUE
  /\ ret' = Returned("Close", "", 0, NoRaw)
  /\ UNCHANGED <<seq, pending, req, wire, rd, calls, hist>>

\* ------------------------------------------------------------------ server: what the peer sends
Sum35 == <<"[", "3", "5", "]">>

Request(method, params) ==
  ObjV([jsonrpc |-> V20, method |-> Str(method), params |-> params])

RequestId(method, params, id) ==
  ObjV([jsonrpc |-> V20, method |-> Str(method), params |-> params, id |-> id])

\* ids a peer uses: a number, a string with a byte that is HTML-escaped, null
PeerIds == {<<"7">>, Str("<"), null}

Decoded(v) == [dec |-> "ok", v |-> v]

Failed(e) == [dec |-> e, v |-> ScalarV("n")]

ServerInputs ==
  {Decoded(v) : v \in
     {Request("Svc.Sum", Sum35),                       \* notifications
      Request("Svc.Sum", <<"[", "\"a\"", "]">>),
      Request("Svc.Nop", Sum35),
      Request("JSONRPC2.Batch", <<"[", "C1", "]">>),
      ArrV(<<>>), ArrV(<<"N">>), ArrV(<<"C1", "N", "C2">>),  \* batches
      ObjV(NoObj),                                      \* {}
      RequestId("Svc.Sum", Sum35, <<"t", "rue">>)}
     \cup {RequestId("Svc.Sum", Sum35, id) : id \in PeerIds}
     \cup {RequestId("JSONRPC2.Batch", <<"[", e, "]">>, <<"7">>) : e \in {"N", "C1"}}}
  \cup {Failed(e) : e \in {"EOF", "ErrUnexpectedEOF", "SyntaxError"}}

\* a member that is not in the object
Absent == <<"absent">>

\* the object with the members that are given
Members(o) == [k \in {k \in DOMAIN o : o[k] # Absent} |-> o[k]]

\* the top-level values put to the strict validator: every object over the keys
\* jsonrpc, method, params, id and an unknown key x, with values of each JSON
\* type, and the values that are not objects
ValidatorInputs ==
  {Decoded(ObjV(Members([jsonrpc |-> j, method |-> m, params |-> p, id |-> i, x |-> x]))) :
     j \in {Absent, V20, V10, null, <<"2">>},
     m \in {Absent, Str("Svc.Sum"), null, <<"1">>},
     p \in {Absent, Sum35, <<"{", "}">>, null, <<"1">>, Str("a")},
     i \in {Absent, <<"7">>, Str("a"), null, <<"t", "rue">>, <<"f", "alse">>,
            <<"[", "]">>, <<"{", "}">>},
     x \in {Absent, <<"0">>}}
  \cup {Decoded(ScalarV(b)) : b \in {"n", "t", "1", "\""}}

\* ------------------------------------------------------------------ client: wire schema
\* const seqNotify = math.MaxUint64, narrowed to the checker's integer width
seqNotify == 2147483647

\* a decoded top-level response: its first byte, its members when it is an
\* object and the members of its "error" member when that is an object
RespV(o, e) == [top |-> "{", o |-> o, e |-> e]

OtherV(b) == [top |-> b, o |-> NoObj, e |-> NoObj]

\* var raw json.RawMessage before Decode filled it
NoValue == OtherV("")

Digits == {"0", "1", "2", "3"}

\* a JSON number that fits uint64
IsUint(raw) == Len(raw) = 1 /\ raw[1] \in Digits

UintOf_zero(raw) == 0

UintOf(raw) == CASE raw[1] = "0" -> 0 [] raw[1] = "1" -> 1 [] raw[1] = "2" -> 2 [] OTHER -> 3

IsNumber(raw) == raw # Nil /\ raw[1] \in Digits \cup {"-"}

\* json.Unmarshal(raw, &c.resp) fails: a member whose JSON type does not fit
\* the field of clientResponse (or of Error) it is stored in
RespStructErr(v) ==
  LET o == v.o
      present(m, k) == k \in DOMAIN m /\ m[k] # null
  IN  \/ present(o, "jsonrpc") /\ ~IsString(o["jsonrpc"])
      \/ present(o, "id") /\ ~IsUint(o["id"])
      \/ present(o, "error") /\ o["error"][1] # "{"
      \/ present(o, "error") /\ present(v.e, "code") /\ ~IsNumber(v.e["code"])
      \/ present(o, "error") /\ present(v.e, "message") /\ ~IsString(v.e["message"])

\* the digits of a raw JSON number, sign included
CodeOf(raw) == IF Len(raw) = 2 THEN raw[1] \o raw[2] ELSE raw[1]

\* the Error a response carries, as (*Error).Error() prints it
ErrorOf(v) ==
  ErrorJSON(IF Ptr(v.e, "code") = Nil THEN "0" ELSE CodeOf(v.e["code"]),
            IF Ptr(v.e, "message") = Nil THEN <<>> ELSE <<v.e["message"][2]>>)

\* the checks on the error object of a response in src/client.go: 2 to 4 keys
LegacyBadErrorObject(e) ==
  \/ Cardinality(DOMAIN e) < 2 \/ Cardinality(DOMAIN e) > 4
  \/ Ptr(e, "code") = Nil
  \/ Ptr(e, "message") = Nil
  \/ Cardinality(DOMAIN e) = 3 /\ "data" \notin DOMAIN e

\* the checks on the error object of a response: 2 keys, or 3 with data
BadErrorObject(e) ==
  \/ Ptr(e, "code") = Nil
  \/ Ptr(e, "message") = Nil
  \/ Cardinality(DOMAIN e) = 3 /\ "data" \notin DOMAIN e
  \/ Cardinality(DOMAIN e) > 3

\* errors the client codec returns
NoError == [kind |-> "nil", code |-> "", msg |-> <<>>]

EOF == [kind |-> "EOF", code |-> "", msg |-> <<>>]

NewError(code, msg) == [kind |-> "Error", code |-> code, msg |-> msg]

BadResponse == NewError(errInternalCode, <<"bad response">>)

DecodeError_raw(e) == [kind |-> e, code |-> "", msg |-> <<>>]

\* what ReadResponseHeader returns when c.dec.Decode(&raw) fails with e: io.EOF
\* as it is, any other error wrapped in an Error with the internal error code
DecodeError(e) == IF e = "EOF" THEN EOF ELSE NewError(errInternalCode, <<e>>)

\* c.resp.Error of a response whose error member is an object
RespError(v) ==
  NewError(IF Ptr(v.e, "code") = Nil THEN "0" ELSE CodeOf(v.e["code"]),
           IF Ptr(v.e, "message") = Nil THEN <<>> ELSE <<v.e["message"][2]>>)

rpcClientResponse(method, s, err) == [ServiceMethod |-> method, Seq |-> s, Error |-> err]

KeyCountOK_any(n) == TRUE

\* len(rawMap) != 3 is rejected
KeyCountOK(n) == n = 3

\* c.resp.Result after the null fix-up: set whenever the key is present
ResultSet(o) == "result" \in DOMAIN o

IdIsNull_never(o) == FALSE

\* rawMap["id"] == nil
IdIsNull(o) == Ptr(o, "id") = Nil

\* clientCodec.ReadResponseHeader on a decoded value v with pending table p:
\* the error returned, the table afterwards and the rpc.Response filled in
ReadResponseHeader(variant, v, p) ==
  LET o == v.o
      errSet == Ptr(o, "error") # Nil
      reject == [err |-> BadResponse, pending |-> p, r |-> rpcClientResponse("", 0, <<>>)]
      id == IF Ptr(o, "id") = Nil THEN 0 ELSE UintOf(o["id"])
  IN  IF v.top # "{" THEN reject
      ELSE IF ~KeyCountOK(Cardinality(DOMAIN o)) THEN reject
      ELSE IF Ptr(o, "jsonrpc") = Nil THEN reject
      ELSE IF "id" \notin DOMAIN o THEN reject
      ELSE IF RespStructErr(v) THEN reject
      ELSE IF o["jsonrpc"] # V20 THEN reject
      ELSE IF ResultSet(o) = errSet THEN reject
      ELSE IF errSet /\ (IF variant = "legacy" THEN LegacyBadErrorObject(v.e)
                                               ELSE BadErrorObject(v.e)) THEN reject
      ELSE IF IdIsNull(o)
      THEN IF errSet THEN [reject EXCEPT !.err = RespError(v)] ELSE reject
      ELSE [err |-> NoError,
            pending |-> Remove(p, id),
            r |-> rpcClientResponse(IF id \in DOMAIN p THEN p[id] ELSE "", id,
                                    IF errSet THEN ErrorOf(v) ELSE <<>>)]

\* ------------------------------------------------------------------ client: requests
\* the kinds of param the host passes (reflect.Kind, and whether the value is nil)
ParamKinds == {"nilslice", "struct", "badstruct", "ptr-int"}

UnsupportedParam_none(param) == FALSE

\* WriteRequest rejects the kind: not an array, slice, map or struct, nor a pointer to one
UnsupportedParam(param) == param = "ptr-int"

\* "params" is omitted: nil, or an uninitialized map or slice
OmitParams(param) == param = "nilslice"

\* enc.Encode(&req) fails: json.Marshal cannot encode the param (a struct with a
\* channel field)
EncodeFails(param) == param = "badstruct"

\* src/client.go: every request is entered in c.pending and carries an id
LegacyRegisters(s) == TRUE

Registers_never(s) == FALSE

\* the request is entered in c.pending (and carries its id): not a notification
Registers(s) == s # seqNotify

\* the bytes of a clientRequest; hasId is FALSE when "id" is omitted
clientRequest(method, param, hasId, id) ==
  [method |-> method, hasParams |-> ~OmitParams(param), hasId |-> hasId, id |-> id]

\* ------------------------------------------------------------------ client: state
VARIABLES
  variant,    \* which clientCodec: "legacy" (src/client.go) or "current" (with Notify)
  cpending,   \* clientCodec.pending: request id -> method name
  cwire,      \* the requests the client codec wrote to the connection, in order
  wpc,        \* the WriteRequest of a Call or Go in progress: "idle", or "encode" once
              \* the entry is staged
  wreq,       \* its arguments: the rpc.Request and the param
  npc,        \* the WriteRequest of a Notify in progress, likewise
  nreq,       \* its arguments
  cseq,       \* rpc.Client.seq, the next sequence number of the host
  notes,      \* notifications sent so far
  crd,        \* the host's input loop: "reading" or "stopped"
  sent,       \* history: sequence number -> method and outcome of its WriteRequest
  readIds,    \* history: the numeric ids of the responses decoded so far
  cret        \* history: the last operation of the client codec, what c.dec.Decode gave it
              \* ("ok" or the error) and what it returned

cvars == <<variant, cpending, cwire, wpc, wreq, npc, nreq, cseq, notes, crd, sent, readIds, cret>>

\* ------------------------------------------------------------------ HTTP transport: state
VARIABLES
  hreq,       \* the HTTP request the handler serves: method, Content-Type and Accept
  hphase,     \* ServeHTTP: "idle" before the request, "serving" inside ServeRequest, "done"
  hstatus,    \* the status code of the HTTP response, 0 while none is written
  hheader,    \* the Content-Type header of the HTTP response
  served,     \* history: how many times the handler invoked ServeRequest
  ready,      \* httpClientConn.ready: the response bodies waiting for the reader
  finished,   \* history: the Write calls of httpClientConn whose worker goroutine has
              \* ended (position in cwire -> what the round trip gave)
  cclosed,    \* history: Close was called on the client codec of the HTTP connection
  cbody,      \* httpClientConn.body: Nil, or <<b>> for the body b the reader has not
              \* yet seen the end of
  closes      \* history: for every Write whose round trip gave a response, the number
              \* of Close calls on the body of that response

hvars == <<hreq, hphase, hstatus, hheader, served, ready, finished, cclosed, cbody, closes>>

vars == <<svars, cvars, hvars>>

NoRequest == [Seq |-> 0, ServiceMethod |-> "", param |-> "nilslice"]

NoResponse == rpcClientResponse("", 0, <<>>)

CReturned(op, dec, err, v, r) == [op |-> op, dec |-> dec, err |-> err, v |-> v, r |-> r]

\* NewClientCodec
InitClient ==
  /\ variant \in {"legacy", "current"}
  /\ cpending = [n \in {} |-> ""]
  /\ cwire = <<>>
  /\ wpc = "idle"
  /\ wreq = NoRequest
  /\ npc = "idle"
  /\ nreq = NoRequest
  /\ cseq = 0
  /\ notes = 0
  /\ crd = "reading"
  /\ sent = [n \in {} |-> ""]
  /\ readIds = {}
  /\ cret = CReturned("NewClientCodec", "", NoError, NoValue, NoResponse)

ClientMethods == {"Svc.Sum", "Svc.Nop"}

\* clientCodec.WriteRequest up to the Encode call: the param check and the
\* insert into c.pending
WriteRequestStage(r, param) ==
  /\ IF UnsupportedParam(param)
     THEN /\ cret' = CReturned("WriteRequest", "",
                               NewError(errInternalCode, <<"unsupported param type">>),
                               NoValue, NoResponse)
          /\ UNCHANGED <<cpending, sent>>
     ELSE /\ cpending' = IF (IF variant = "legacy" THEN LegacyRegisters(r.Seq)
                                                   ELSE Registers(r.Seq))
                         THEN (r.Seq :> r.ServiceMethod) @@ cpending
                         ELSE cpending
          /\ sent' = (r.Seq :> [method |-> r.ServiceMethod, status |-> "staged"]) @@ sent
          /\ cret' = cret
  /\ UNCHANGED <<variant, cwire, crd, readIds>>

\* the request a WriteRequest execution holds between its two halves
Staged(r, param) == [Seq |-> r.Seq, ServiceMethod |-> r.ServiceMethod, param |-> param]

\* rpc.Client.send: a Call or Go passes the next sequence number
Send(method, param) ==
  /\ cseq < MaxCalls
  /\ crd = "reading"
  /\ wpc = "idle"
  /\ WriteRequestStage([Seq |-> cseq, ServiceMethod |-> method], param)
  /\ IF UnsupportedParam(param)
     THEN UNCHANGED <<wpc, wreq>>
     ELSE /\ wpc' = "encode"
          /\ wreq' = Staged([Seq |-> cseq, ServiceMethod |-> method], param)
  /\ cseq' = cseq + 1
  /\ UNCHANGED <<notes, npc, nreq>>

\* Client.Notify: WriteRequest with the sentinel sequence number, called on
\* the codec directly, without the request mutex rpc.Client.send holds
Notify(method, param) ==
  /\ notes < MaxNotes
  /\ npc = "idle"
  /\ WriteRequestStage([Seq |-> seqNotify, ServiceMethod |-> method], param)
  /\ IF UnsupportedParam(param)
     THEN UNCHANGED <<npc, nreq>>
     ELSE /\ npc' = "encode"
          /\ nreq' = Staged([Seq |-> seqNotify, ServiceMethod |-> method], param)
  /\ notes' = notes + 1
  /\ UNCHANGED <<cseq, wpc, wreq>>

\* c.enc.Encode(&req) and the return of WriteRequest, for the staged request q
Encode(q) ==
  /\ LET hasId == IF variant = "legacy" THEN LegacyRegisters(q.Seq) ELSE Registers(q.Seq)
         failed == EncodeFails(q.param)
     IN  /\ cwire' = IF failed THEN cwire
                     ELSE Append(cwire, [seq |-> q.Seq,
                                         msg |-> clientRequest(q.ServiceMethod, q.param,
                                                               hasId, IF hasId THEN q.Seq ELSE 0)])
         /\ sent' = [sent EXCEPT ![q.Seq].status = IF failed THEN "failed" ELSE "ok"]
         /\ cret' = CReturned("WriteRequest", "",
                              IF failed THEN NewError(errInternalCode, <<"json: unsupported type">>)
                                        ELSE NoError,
                              NoValue, NoResponse)
  /\ UNCHANGED <<variant, cpending, cseq, notes, crd, readIds>>

\* clientCodec.WriteRequest from the Encode call on, in the goroutine of a
\* Call or Go
WriteRequestEncode ==
  /\ wpc = "encode"
  /\ Encode(wreq)
  /\ wpc' = "idle"
  /\ wreq' = NoRequest
  /\ UNCHANGED <<npc, nreq>>

\* the same half of WriteRequest in the goroutine that called Notify
NotifyEncode ==
  /\ npc = "encode"
  /\ Encode(nreq)
  /\ npc' = "idle"
  /\ nreq' = NoRequest
  /\ UNCHANGED <<wpc, wreq>>

InputLoop_goes_on(err) == "reading"

\* the host's input loop after a ReadResponseHeader that returned err: any error
\* ends it (the error is handed to all pending calls and the client shuts down)
InputLoop(err) == IF err = NoError THEN "reading" ELSE "stopped"

\* the numeric id of a decoded object, if it has one
IdsOf(v) == IF "id" \in DOMAIN v.o /\ IsUint(v.o["id"]) THEN {UintOf(v.o["id"])} ELSE {}

\* rpc.Client.input: one ReadResponseHeader; the loop ends at the first error
ReadResponse(in) ==
  /\ crd = "reading"
  /\ IF in.dec # "ok"
     THEN /\ cret' = CReturned("ReadResponseHeader", in.dec, DecodeError(in.dec),
                               NoValue, NoResponse)
          /\ crd' = InputLoop(DecodeError(in.dec))
          /\ UNCHANGED <<cpending, readIds>>
     ELSE LET out == ReadResponseHeader(variant, in.v, cpending)
          IN  /\ cpending' = out.pending
              /\ cret' = CReturned("ReadResponseHeader", "ok", out.err, in.v, out.r)
              /\ crd' = InputLoop(out.err)
              /\ readIds' = readIds \cup (IdsOf(in.v) \cap DOMAIN sent)
  /\ UNCHANGED <<variant, cwire, wpc, wreq, npc, nreq, cseq, notes, sent>>

\* ------------------------------------------------------------------ client: what the peer sends
\* error objects: members code, message, data and the unknown members x, y
ErrObj(keys) ==
  [k \in keys |-> CASE k = "code" -> <<"1">>
                    [] k = "message" -> Str("m")
                    [] OTHER -> <<"0">>]

ErrRaw == <<"{", "e", "}">>

Result(id) == RespV([jsonrpc |-> V20, id |-> id, result |-> <<"8">>], NoObj)

ErrorResp(id, keys) == RespV([jsonrpc |-> V20, id |-> id, error |-> ErrRaw], ErrObj(keys))

ErrorKeySets ==
  { {"code", "message"}, {"code", "message", "data"}, {"code", "message", "x"},
    {"code", "message", "data", "x"}, {"code", "message", "x", "y"},
    {"code", "message", "data", "x", "y"}, {"code", "data"}, {"message", "data"}, {} }

ClientInputs ==
  {Decoded(v) : v \in
     {Result(id) : id \in {<<"0">>, <<"1">>, <<"3">>, null, Str("a"), <<"-", "1">>}}
     \cup {ErrorResp(id, keys) : id \in {<<"0">>, null}, keys \in ErrorKeySets}
     \cup {RespV([jsonrpc |-> V20, id |-> <<"0">>, result |-> null], NoObj),
           RespV([jsonrpc |-> V20, id |-> <<"0">>, error |-> null], NoObj),
           RespV([jsonrpc |-> V20, id |-> <<"0">>, error |-> Str("e")], NoObj),
           RespV([jsonrpc |-> V20, id |-> <<"0">>, error |-> ErrRaw],
                 [code |-> Str("1"), message |-> Str("m")]),
           RespV([jsonrpc |-> V20, id |-> <<"0">>, error |-> ErrRaw],
                 [code |-> <<"1">>, message |-> null]),
           RespV([jsonrpc |-> V20, id |-> <<"0">>], NoObj),
           RespV([jsonrpc |-> V20, id |-> <<"0">>, x |-> <<"8">>], NoObj),
           RespV([jsonrpc |-> V20, id |-> <<"0">>, result |-> <<"8">>, x |-> <<"8">>], NoObj),
           RespV([jsonrpc |-> V20, id |-> <<"0">>, result |-> <<"8">>, error |-> ErrRaw],
                 ErrObj({"code", "message"})),
           RespV([jsonrpc |-> V10, id |-> <<"0">>, result |-> <<"8">>], NoObj),
           RespV([jsonrpc |-> null, id |-> <<"0">>, result |-> <<"8">>], NoObj),
           RespV([jsonrpc |-> <<"2">>, id |-> <<"0">>, result |-> <<"8">>], NoObj),
           RespV([id |-> <<"0">>, result |-> <<"8">>, x |-> <<"8">>], NoObj),
           RespV([jsonrpc |-> V20, result |-> <<"8">>, x |-> <<"8">>], NoObj),
           OtherV("["), OtherV("n"), OtherV("1")}}
  \cup {[dec |-> e, v |-> NoValue] : e \in {"EOF", "ErrUnexpectedEOF", "SyntaxError"}}

\* ------------------------------------------------------------------ HTTP transport: server handler
\* const contentType
contentType == "application/json"

StatusOK == 200

StatusAccepted == 202

StatusNoContent == 204

StatusMethodNotAllowed == 405

StatusUnsupportedMediaType == 415

HTTPRequest(method, ct, accept) == [method |-> method, ct |-> ct, accept |-> accept]

\* no request yet
NoHTTPRequest == HTTPRequest("", "", "")

\* the handler and the client connection before any exchange
InitHTTP ==
  /\ hreq = NoHTTPRequest
  /\ hphase = "idle"
  /\ hstatus = 0
  /\ hheader = ""
  /\ served = 0
  /\ ready = <<>>
  /\ finished = [i \in {} |-> Nil]
  /\ cclosed = FALSE
  /\ cbody = Nil
  /\ closes = [i \in {} |-> 0]

\* the requests put to the handler; "" is a header that is not sent
HTTPRequests ==
  {HTTPRequest(m, ct, acc) :
     m \in {"POST", "GET", "PUT"},
     ct \in {contentType, "application/json; charset=utf-8", "text/json", ""},
     acc \in {contentType, "text/json", "*/*", ""}}

MethodAllowed_any(method) == TRUE

\* req.Method != "POST" is answered 405
MethodAllowed(method) == method = "POST"

\* the media type check: both headers must equal contentType, byte for byte
MediaTypeOK(r) == r.ct = contentType /\ r.accept = contentType

\* httpConn.replied: set by the first Write of the codec
replied == wire # <<>>

FinalStatus_ok(wrote) == StatusOK

\* the status the response ends with after ServeRequest: 200 is implied by the
\* first Write, 204 is written when the codec wrote nothing
FinalStatus(wrote) == IF wrote THEN StatusOK ELSE StatusNoContent

\* ServeHTTP up to the call of ServeRequest: the header is set, then the method
\* is checked, then the media types; a request that fails a check is answered
\* at once, without a codec
ServeHTTP(r) ==
  /\ hphase = "idle"
  /\ hreq' = r
  /\ hheader' = contentType
  /\ IF ~MethodAllowed(r.method)
     THEN hstatus' = StatusMethodNotAllowed /\ hphase' = "done" /\ served' = served
     ELSE IF ~MediaTypeOK(r)
     THEN hstatus' = StatusUnsupportedMediaType /\ hphase' = "done" /\ served' = served
     ELSE hstatus' = 0 /\ hphase' = "serving" /\ served' = served + 1
  /\ UNCHANGED <<ready, finished, cclosed, cbody, closes>>

\* rpc.Server.ServeRequest has returned: the request could not be read, or its
\* response was sent
ServeRequestReturned ==
  \/ rd = "stopped"
  \/ \E s \in DOMAIN calls : calls[s].phase = "done"

\* ServeHTTP after ServeRequest returned
ServeHTTPEnd ==
  /\ hphase = "serving"
  /\ ServeRequestReturned
  /\ hstatus' = FinalStatus(replied)
  /\ hphase' = "done"
  /\ UNCHANGED <<hreq, hheader, served, ready, finished, cclosed, cbody, closes>>

\* ------------------------------------------------------------------ HTTP transport: client connection
\* make(chan io.ReadCloser, 16)
readyCap == 16

\* what (&http.Client{}).Do gave the worker: an error, or a response with its
\* Content-Type and status
RoundTrip(err, ct, status) == [err |-> err, ct |-> ct, status |-> status]

RoundTrips ==
  {RoundTrip(TRUE, "", 0),
   RoundTrip(FALSE, contentType, StatusOK),
   RoundTrip(FALSE, contentType, StatusNoContent),
   RoundTrip(FALSE, "", StatusNoContent),
   RoundTrip(FALSE, contentType, 500),
   RoundTrip(FALSE, "application/jsonfail", StatusOK)}

WorkerError_statusOnly(res) ==
  IF res.err THEN <<"transport">>
  ELSE IF res.status \in {StatusOK, StatusNoContent, StatusAccepted} THEN Nil
  ELSE <<"bad HTTP Status">>

\* the worker's err after the round trip, Nil for none: the transport error,
\* else a Content-Type that is not contentType, else a status other than 200,
\* 204 and 202
WorkerError(res) ==
  IF res.err THEN <<"transport">>
  ELSE IF res.ct # contentType THEN <<"bad HTTP Content-Type">>
  ELSE IF res.status \in {StatusOK, StatusNoContent, StatusAccepted} THEN Nil
  ELSE <<"bad HTTP Status">>

\* the raw JSON of a sequence number
UintRaw(n) == <<CASE n = 0 -> "0" [] n = 1 -> "1" [] n = 2 -> "2" [] OTHER -> "3">>

\* the response the worker makes up for a request it could not get answered:
\* the id of the request and an Error with the internal error code
SynthResponse(id, message) ==
  RespV([jsonrpc |-> V20, id |-> UintRaw(id), error |-> ErrRaw],
        [code |-> <<"-", "32603">>, message |-> <<"\"">> \o message \o <<"\"">>])

\* the body of the 200 a server answers the request with
BodyFor(msg) ==
  IF msg.hasId THEN Result(UintRaw(msg.id)) ELSE ErrorResp(null, {"code", "message"})

\* an element of conn.ready: the JSON value of the body and the Write it is for
Body(v, i) == [dec |-> "ok", v |-> v, from |-> i]

\* the round trip gave the worker a response (resp is not nil)
HasResponse(res) == ~res.err

\* the worker hands resp.Body to the reader
Enqueues(res) == WorkerError(res) = Nil /\ res.status = StatusOK

WorkerCloses_never(res) == FALSE

\* the worker calls resp.Body.Close(): on 204 and 202, and on a response it
\* turned into an error
WorkerCloses(res) == HasResponse(res) /\ ~Enqueues(res)

ReadyPut_always(msg, i, res) ==
  IF WorkerError(res) = Nil
  THEN <<Body(BodyFor(msg), i)>>
  ELSE <<Body(SynthResponse(msg.id, WorkerError(res)), i)>>

\* what the worker of the i-th request, which wrote msg, sends on conn.ready:
\* the body of a 200, nothing for 204 and 202, else the response it makes up
\* unless the request is a notification
ReadyPut(msg, i, res) ==
  LET e == WorkerError(res)
  IN  IF e = Nil
      THEN IF res.status = StatusOK THEN <<Body(BodyFor(msg), i)>> ELSE <<>>
      ELSE IF ~msg.hasId THEN <<>>   \* ignore error from Notification
      ELSE <<Body(SynthResponse(msg.id, e), i)>>

\* the goroutine of httpClientConn.Write for the i-th request written
Worker(i, res) ==
  /\ i \in DOMAIN cwire
  /\ i \notin DOMAIN finished
  /\ LET put == ReadyPut(cwire[i].msg, i, res)
     IN  /\ Len(ready \o put) <= readyCap
         /\ ready' = ready \o put
  /\ finished' = (i :> res) @@ finished
  /\ closes' = IF HasResponse(res)
               THEN (i :> (IF WorkerCloses(res) THEN 1 ELSE 0)) @@ closes
               ELSE closes
  /\ UNCHANGED <<hreq, hphase, hstatus, hheader, served, cclosed, cbody>>

\* the element of conn.ready is the body of an HTTP response, not the buffer
\* of a response the worker made up
IsResponseBody(b) == Enqueues(finished[b.from])

\* conn.body.Close() on b
Closed(cl, b) == IF IsResponseBody(b) THEN [cl EXCEPT ![b.from] = @ + 1] ELSE cl

\* httpClientConn.Read under the decoder of the client codec: the next body
\* is taken from conn.ready and its value is given to ReadResponseHeader
\* and, with its last bytes or at the next Read, its io.EOF, at which Read
\* closes it
HTTPRead ==
  /\ cbody = Nil
  /\ ready # <<>>
  /\ ReadResponse(Head(ready))
  /\ ready' = Tail(ready)
  /\ \E eof \in BOOLEAN :
       IF eof
       THEN /\ cbody' = Nil
            /\ closes' = Closed(closes, Head(ready))
       ELSE /\ cbody' = <<Head(ready)>>
            /\ closes' = closes
  /\ UNCHANGED <<hreq, hphase, hstatus, hheader, served, finished, cclosed>>

\* httpClientConn.Read called by the decoder for the next response while
\* conn.body is set: the body gives 0, io.EOF, Read closes it and goes on to
\* receive from conn.ready
HTTPReadEOF ==
  /\ crd = "reading"
  /\ cbody # Nil
  /\ cbody' = Nil
  /\ closes' = Closed(closes, cbody[1])
  /\ UNCHANGED <<hreq, hphase, hstatus, hheader, served, ready, finished, cclosed>>

\* clientCodec.Close on the HTTP connection: httpClientConn.Close returns nil and
\* leaves the connection as it is
CloseHTTPClient ==
  /\ ~cclosed
  /\ cclosed' = TRUE
  /\ UNCHANGED <<hreq, hphase, hstatus, hheader, served, ready, finished, cbody, closes>>

\* ------------------------------------------------------------------ specifications
\* a server codec serving one connection
NextServer ==
  \/ (\E in \in ServerInputs : ReadRequestHeader(in)) /\ UNCHANGED <<cvars, hvars>>
  \/ ReadRequestBody /\ UNCHANGED <<cvars, hvars>>
  \/ (\E s \in 1..MaxReqs : SendResponse(s)) /\ UNCHANGED <<cvars, hvars>>
  \/ (\E s \in 1..MaxReqs : StrayResponse(s)) /\ UNCHANGED <<cvars, hvars>>
  \/ Close /\ UNCHANGED <<cvars, hvars>>

\* the connection is served; the client half of the module stays idle
InitServing == InitServer /\ InitClient /\ InitHTTP /\ variant = "current"

SpecServer == InitServing /\ [][NextServer]_vars

\* the responses a peer sends while requests are in flight
PeerResponses ==
  {Decoded(v) : v \in {Result(<<"0">>), Result(<<"1">>), Result(<<"2">>),
                       RespV([jsonrpc |-> V20, id |-> <<"1">>], NoObj)}}
  \cup {[dec |-> "EOF", v |-> NoValue]}

\* a client codec under an rpc.Client, either variant of the codec
NextClient ==
  \/ (\E m \in ClientMethods, param \in ParamKinds \ {"nilslice"} : Send(m, param))
     /\ UNCHANGED <<svars, hvars>>
  \/ (\E param \in {"nilslice", "badstruct"} : Notify("Svc.Log", param)) /\ UNCHANGED <<svars, hvars>>
  \/ WriteRequestEncode /\ UNCHANGED <<svars, hvars>>
  \/ NotifyEncode /\ UNCHANGED <<svars, hvars>>
  \/ (\E in \in PeerResponses : ReadResponse(in)) /\ UNCHANGED <<svars, hvars>>

\* the client codec is in use; the server half of the module stays idle
InitCalling == InitServer /\ InitClient /\ InitHTTP

SpecClient == InitCalling /\ [][NextClient]_vars

\* one top-level value per codec: what the strict validator makes of it
NextValidator == (\E in \in ValidatorInputs : ReadRequestHeader(in)) /\ UNCHANGED <<cvars, hvars>>

\* a fresh server codec about to read its first request
InitValidating == InitServer /\ InitClient /\ InitHTTP /\ variant = "current"

SpecValidator == InitValidating /\ [][NextValidator]_vars

\* the bodies posted to the handler
HTTPBodies == ServerInputs

\* one HTTP exchange of the handler: ServeRequest reads one request from a
\* codec of its own, runs it and sends its response
NextHTTPServer ==
  \/ (\E r \in HTTPRequests : ServeHTTP(r)) /\ UNCHANGED <<svars, cvars>>
  \/ (\E in \in HTTPBodies : hphase = "serving" /\ seq = 0 /\ ReadRequestHeader(in))
     /\ UNCHANGED <<cvars, hvars>>
  \/ (hphase = "serving" /\ ReadRequestBody) /\ UNCHANGED <<cvars, hvars>>
  \/ (\E s \in 1..MaxReqs : hphase = "serving" /\ SendResponse(s)) /\ UNCHANGED <<cvars, hvars>>
  \/ ServeHTTPEnd /\ UNCHANGED <<svars, cvars>>

InitHTTPServing == InitServer /\ InitClient /\ InitHTTP /\ variant = "current"

SpecHTTPServer == InitHTTPServing /\ [][NextHTTPServer]_vars

\* a client made by NewHTTPClient: calls and notifications are written, each
\* Write is posted by a worker of its own, the input loop reads what is ready
NextHTTPClient ==
  \/ (\E m \in {"Svc.Sum"} : ~cclosed /\ Len(cwire) < MaxPosts /\ Send(m, "struct"))
     /\ UNCHANGED <<svars, hvars>>
  \/ (Len(cwire) < MaxPosts /\ Notify("Svc.Log", "nilslice")) /\ UNCHANGED <<svars, hvars>>
  \/ WriteRequestEncode /\ UNCHANGED <<svars, hvars>>
  \/ NotifyEncode /\ UNCHANGED <<svars, hvars>>
  \/ (\E i \in 1..MaxPosts, res \in RoundTrips : Worker(i, res))
     /\ UNCHANGED <<svars, cvars>>
  \/ HTTPRead /\ UNCHANGED svars
  \/ HTTPReadEOF /\ UNCHANGED <<svars, cvars>>
  \/ CloseHTTPClient /\ UNCHANGED <<svars, cvars>>

InitHTTPCalling == InitServer /\ InitClient /\ InitHTTP /\ variant = "current"

SpecHTTPClient == InitHTTPCalling /\ [][NextHTTPClient]_vars

\* the same client with its worker goroutines scheduled: while a worker that
\* was started has not finished, some worker gets its round trip done
SpecHTTPClientLive ==
  /\ InitHTTPCalling
  /\ [][NextHTTPClient]_vars
  /\ WF_vars((\E i \in 1..MaxPosts, res \in RoundTrips : Worker(i, res))
               /\ UNCHANGED <<svars, cvars>>)

\* a client codec whose requests are all written, reading what the peer sends
InitReader ==
  /\ variant \in {"legacy", "current"}
  /\ cseq \in 0..MaxCalls
  /\ \E m \in [0..(cseq - 1) -> ClientMethods] :
       /\ cpending = m
       /\ sent = [n \in DOMAIN m |-> [method |-> m[n], status |-> "ok"]]
       /\ cwire = [i \in 1..cseq |->
                     [seq |-> i - 1, msg |-> clientRequest(m[i - 1], "struct", TRUE, i - 1)]]
  /\ wpc = "idle"
  /\ wreq = NoRequest
  /\ npc = "idle"
  /\ nreq = NoRequest
  /\ notes = 0
  /\ crd = "reading"
  /\ readIds = {}
  /\ cret = CReturned("WriteRequest", "", NoError, NoValue, NoResponse)

NextReader == (\E in \in ClientInputs : ReadResponse(in)) /\ UNCHANGED <<svars, hvars>>

InitReading == InitServer /\ InitReader /\ InitHTTP

SpecReader == InitReading /\ [][NextReader]_vars

\* ------------------------------------------------------------------ properties: server codec
\* the decoded value is a request object without an "id" member
IsNotificationRequest(v) == v.top = "{" /\ "id" \notin DOMAIN v.o

\* the decoded value is a request object whose "id" is not null
HasNonNullId(v) == v.top = "{" /\ "id" \in DOMAIN v.o /\ v.o["id"] # null

\* the raw id a decoded value is to be answered with (null for a batch array)
RawIdOf(v) == IF v.top = "{" /\ "id" \in DOMAIN v.o THEN v.o["id"] ELSE null

\* the positions on the connection of what was written for sequence number s
WrittenFor(s) == {i \in DOMAIN wire : wire[i].by = s}

\* C1: for every decoded request that carries no "id" member, nothing is
\* written to the connection, whatever the outcome of the call
C1_NotificationsSilent ==
  \A s \in DOMAIN hist : IsNotificationRequest(hist[s]) => WrittenFor(s) = {}

\* C2: while the codec is not closed, every decoded request with a non-null id
\* whose WriteResponse was called has exactly one response object on the connection
C2_ExactlyOneResponse ==
  ~closed =>
    \A s \in DOMAIN calls :
      (calls[s].phase = "done" /\ HasNonNullId(hist[s]))
        => Cardinality({i \in WrittenFor(s) : wire[i].msg.kind = "object"}) = 1

\* C3: every response object on the connection carries exactly the raw id of
\* the request whose sequence number it answers, in whatever order the
\* responses were written
C3_IdsEchoed ==
  \A i \in DOMAIN wire :
    (wire[i].by \in DOMAIN hist /\ wire[i].msg.kind = "object")
      => wire[i].msg.id = RawIdOf(hist[wire[i].by])

\* C4: a ReadRequestHeader that succeeds hands out a sequence number greater
\* than every one handed out before and adds its table entry; one that fails
\* changes neither the sequence counter nor the table
C4_SeqStrictlyIncreasing ==
  [][(rd = "header" /\ rd' # "header")
       => IF rd' = "body"
          THEN /\ ret'.seq = seq'
               /\ seq' > seq
               /\ \A s \in DOMAIN hist \cup DOMAIN pending : s < seq'
               /\ DOMAIN pending' = DOMAIN pending \cup {seq'}
          ELSE /\ seq' = seq
               /\ pending' = pending]_vars

\* C4: a ReadRequestHeader failed after two requests were decoded
C4_Witness == seq >= 2 /\ ret.op = "ReadRequestHeader" /\ ret.err # "" /\ rd = "stopped"

\* C5: once the codec is closed the id-translation table holds no entry
C5_TableEmptyAfterClose == closed => DOMAIN pending = {}

\* ------------------------------------------------------------------ properties: client codec
\* the step is a ReadResponseHeader of the client codec
ReadStep ==
  /\ cret'.op = "ReadResponseHeader"
  /\ <<cwire, wpc, wreq, npc, nreq, cseq, notes, sent>>'
       = <<cwire, wpc, wreq, npc, nreq, cseq, notes, sent>>

\* the error -32603 "bad response"
BadResponseError == [kind |-> "Error", code |-> "-32603", msg |-> <<"bad response">>]

\* requests that are not notifications, were staged or written, and whose
\* response was not read yet
Outstanding ==
  {n \in DOMAIN sent :
     n # seqNotify /\ sent[n].status \in {"staged", "ok"} /\ n \notin readIds}

\* C6: every outstanding request has its pending entry, from before its first
\* byte is written until its response is read, and the response that is
\* accepted for it finds its method name
C6_PendingEntries ==
  /\ [](\A n \in Outstanding : n \in DOMAIN cpending /\ cpending[n] = sent[n].method)
  /\ [][(ReadStep /\ cret'.err = NoError /\ cret'.r.Seq \in Outstanding)
          => cret'.r.ServiceMethod = sent[cret'.r.Seq].method]_vars

\* C6: the response to a written request found its method name while another
\* written request is still pending
C6_Witness ==
  /\ cret.op = "ReadResponseHeader"
  /\ cret.err = NoError
  /\ cret.r.Seq \in DOMAIN sent
  /\ cret.r.ServiceMethod = sent[cret.r.Seq].method
  /\ cret.r.Seq \notin DOMAIN cpending
  /\ \E n \in Outstanding : sent[n].status = "ok"

\* C7: a written request has no id exactly when it was written for the
\* sentinel sequence number, a request with an id carries its sequence
\* number, and the sentinel never enters the pending table
C7_IdIffNotNotification ==
  /\ \A i \in DOMAIN cwire :
       /\ cwire[i].msg.hasId <=> cwire[i].seq # seqNotify
       /\ cwire[i].msg.hasId => cwire[i].msg.id = cwire[i].seq
  /\ seqNotify \notin DOMAIN cpending

\* an object with exactly three keys, jsonrpc "2.0", id, and exactly one of
\* result (null included) and a non-null error
HasMembers(v) ==
  /\ v.top = "{"
  /\ Cardinality(DOMAIN v.o) = 3
  /\ "jsonrpc" \in DOMAIN v.o /\ v.o["jsonrpc"] = <<"\"", "2.0", "\"">>
  /\ "id" \in DOMAIN v.o
  /\ ("result" \in DOMAIN v.o) # ("error" \in DOMAIN v.o /\ v.o["error"] # null)

StrictErrorObject(e) ==
  /\ "code" \in DOMAIN e /\ e["code"] # null
  /\ "message" \in DOMAIN e /\ e["message"] # null
  /\ \/ Cardinality(DOMAIN e) = 2
     \/ Cardinality(DOMAIN e) = 3 /\ "data" \in DOMAIN e

\* C9: a response whose error member is not an error object of the stricter
\* form is rejected with -32603 "bad response"
C9_StrictErrorObject ==
  (/\ cret.op = "ReadResponseHeader"
   /\ cret.v.top = "{"
   /\ "error" \in DOMAIN cret.v.o
   /\ cret.v.o["error"] # null
   /\ ~StrictErrorObject(cret.v.e))
    => cret.err = BadResponseError

\* a response with the three members, an id that is null or an unsigned
\* number, and, if it has an error, an error object of the stricter form
WellFormed(v) ==
  /\ HasMembers(v)
  /\ v.o["id"] = null \/ IsUint(v.o["id"])
  /\ "error" \in DOMAIN v.o
       => /\ v.o["error"][1] = "{"
          /\ StrictErrorObject(v.e)
          /\ IsNumber(v.e["code"])
          /\ IsString(v.e["message"])

\* C10: a well-formed response with id null and an error makes
\* ReadResponseHeader return that error and leaves the pending table alone;
\* with id null and a result it returns -32603 "bad response"
C10_NullIdSurfacesError ==
  [][(ReadStep /\ cret'.v # NoValue /\ WellFormed(cret'.v) /\ cret'.v.o["id"] = null)
       => IF "error" \in DOMAIN cret'.v.o
          THEN /\ cret'.err = [kind |-> "Error", code |-> cret'.v.e["code"][1],
                               msg |-> <<cret'.v.e["message"][2]>>]
               /\ cpending' = cpending
          ELSE cret'.err = BadResponseError]_vars

\* C10: the error of a response with id null was returned while requests
\* were pending
C10_Witness ==
  /\ cret.op = "ReadResponseHeader"
  /\ "id" \in DOMAIN cret.v.o /\ cret.v.o["id"] = null
  /\ "error" \in DOMAIN cret.v.o
  /\ cret.err = [kind |-> "Error", code |-> "1", msg |-> <<"m">>]
  /\ DOMAIN cpending # {}

\* C11: io.EOF from the byte stream is the only error ReadResponseHeader returns
\* untransformed: it is returned exactly when the decoder gave io.EOF, and every
\* other error returned is an Error carrying a JSON-RPC code (the internal error
\* code -32603, or the code of the error object of a response whose id is null).
C11_OnlyEOFUntransformed ==
  (cret.op = "ReadResponseHeader" /\ cret.err # NoError)
    => /\ cret.dec = "EOF" <=> cret.err = EOF
       /\ cret.dec # "EOF"
            => /\ cret.err.kind = "Error"
               /\ \/ cret.err.code = errInternalCode
                  \/ /\ cret.dec = "ok"
                     /\ Ptr(cret.v.o, "id") = Nil
                     /\ Ptr(cret.v.e, "code") # Nil
                     /\ cret.err.code = cret.v.e["code"][1]

\* a decoder error other than io.EOF came back wrapped in an Error
C11_Witness ==
  /\ cret.op = "ReadResponseHeader"
  /\ cret.dec = "ErrUnexpectedEOF"
  /\ cret.err = NewError(errInternalCode, <<"ErrUnexpectedEOF">>)

\* the response just decoded failed the validation of ReadResponseHeader while
\* it names a request that is pending
RejectedForPending ==
  /\ ReadStep
  /\ cret'.dec = "ok"
  /\ cret'.err # NoError
  /\ IdsOf(cret'.v) \cap DOMAIN cpending # {}

\* C12: a response that fails validation fails only the pending call it
\* answers: that call's pending entry is removed, the other entries stay and
\* the other calls can still complete (responses are still read)
C12_FailsOnlyItsCall ==
  [][RejectedForPending
       => /\ cret'.err.code = errInternalCode
          /\ DOMAIN cpending' = DOMAIN cpending \ IdsOf(cret'.v)
          /\ crd' = "reading"]_vars

\* C12, as the code has it: a response that fails validation is returned to the
\* host as an Error with the pending table untouched, and the host's input loop
\* ends there, so that no later response is read for any pending call
C12_FailsEveryCall ==
  /\ [][RejectedForPending
          => /\ cret'.err.kind = "Error"
             /\ cret'.err.code = errInternalCode
             /\ cpending' = cpending
             /\ crd' = "stopped"]_vars
  /\ [][crd = "stopped" => ~ReadStep]_vars

\* a rejected response named one of two pending calls; both entries are still
\* in the table and the loop has ended
C12_Witness ==
  /\ cret.op = "ReadResponseHeader"
  /\ cret.dec = "ok"
  /\ cret.err = BadResponseError
  /\ IdsOf(cret.v) # {}
  /\ IdsOf(cret.v) \subseteq DOMAIN cpending
  /\ Cardinality(DOMAIN cpending) = 2
  /\ crd = "stopped"

\* ------------------------------------------------------------------ properties: strict validator
\* the requests the validator is to accept: an object with jsonrpc "2.0" and a
\* method, 2 keys, or 3 with exactly one of id/params, or 4 with both; params
\* an array or an object; id a string, a number or null
WellFormedRequest(v) ==
  LET o == v.o
      n == Cardinality(DOMAIN o)
      hasId == "id" \in DOMAIN o
      hasParams == "params" \in DOMAIN o
  IN  /\ v.top = "{"
      /\ "jsonrpc" \in DOMAIN o /\ o["jsonrpc"] = V20
      /\ "method" \in DOMAIN o /\ IsString(o["method"])
      /\ \/ n = 2
         \/ n = 3 /\ (hasId # hasParams)
         \/ n = 4 /\ hasId /\ hasParams
      /\ hasParams => o["params"][1] \in {"[", "{"}
      /\ hasId => \/ o["id"] = null
                  \/ IsString(o["id"])
                  \/ o["id"][1] \in {"-", "0", "1", "2", "3", "4", "5", "6", "7", "8", "9"}

\* C13: the strict validator accepts a top-level value that is not an array
\* iff it is a well-formed request, and rejects every other value as an
\* invalid request ("bad request", answered with -32600)
C13_ValidatorAcceptsIff ==
  (ret.op = "ReadRequestHeader" /\ ret.v # NoRaw /\ ret.v.top # "[")
    => /\ ret.err \in {"", "bad request"}
       /\ ret.err = "" <=> WellFormedRequest(ret.v)
       /\ ret.err = "bad request"
            => /\ wire # <<>>
               /\ wire[Len(wire)].msg
                    = EncodeResponse(serverResponse(null, Nil, errRequest)).msg

\* a request with all four keys and a null id was accepted, and so stands in
\* the id-translation table
C13_Witness ==
  /\ ret.op = "ReadRequestHeader"
  /\ ret.err = ""
  /\ Cardinality(DOMAIN ret.v.o) = 4
  /\ ret.v.o["id"] = null
  /\ ret.seq \in DOMAIN pending

\* ------------------------------------------------------------------ properties: failed reads of the server
\* the step is a ReadRequestHeader that rejected a decoded value as "bad request"
RejectsRequest ==
  /\ rd = "header"
  /\ ret'.op = "ReadRequestHeader"
  /\ ret'.err = "bad request"

\* the response {"jsonrpc":"2.0","id":null,"error":{"code":-32600,"message":"Invalid request"}}
InvalidRequestResponse ==
  [kind |-> "object", id |-> null, result |-> Nil,
   error |-> <<"{", "\"code\":", "-32600", ",\"message\":\"", "Invalid request", "\"", "}">>,
   elems |-> <<>>]

\* C14: a ReadRequestHeader that rejects a structurally invalid request writes
\* exactly one response, with id null and error -32600 "Invalid request", and
\* returns an error; the host stops reading, so that no request is read from
\* the codec afterwards
C14_InvalidRequestEndsReading ==
  /\ [][RejectsRequest
          => /\ wire' = Append(wire, [by |-> 0, msg |-> InvalidRequestResponse])
             /\ rd' = "stopped"
             /\ <<seq, pending>>' = <<seq, pending>>]_vars
  /\ [][rd = "stopped" => (rd' = "stopped" /\ seq' = seq /\ hist' = hist)]_vars

\* an invalid request was rejected after a request was served: its -32600
\* response is the last one written and reading has stopped
C14_Witness ==
  /\ ret.op = "ReadRequestHeader"
  /\ ret.err = "bad request"
  /\ seq = 1
  /\ rd = "stopped"
  /\ Len(wire) >= 2
  /\ wire[Len(wire)] = [by |-> 0, msg |-> InvalidRequestResponse]

\* the response {"jsonrpc":"2.0","id":null,"error":{"code":-32700,"message":"Parse error"}}
ParseErrorResponse ==
  [kind |-> "object", id |-> null, result |-> Nil,
   error |-> <<"{", "\"code\":", "-32700", ",\"message\":\"", "Parse error", "\"", "}">>,
   elems |-> <<>>]

\* C15: an empty body, a whitespace-only body (the decoder gives io.EOF for
\* both) and an unterminated object (io.ErrUnexpectedEOF) each make an open
\* codec write a response with id null and error -32700 "Parse error" before
\* ReadRequestHeader returns the decode error
C15_TruncatedBodyGetsParseError ==
  (ret.op = "ReadRequestHeader" /\ ret.err \in {"EOF", "ErrUnexpectedEOF"})
    => /\ wire # <<>>
       /\ wire[Len(wire)] = [by |-> 0, msg |-> ParseErrorResponse]

\* ------------------------------------------------------------------ properties: HTTP handler
\* the media type of a Content-Type header, without its parameters
BaseType(ct) == IF ct = "application/json; charset=utf-8" THEN "application/json" ELSE ct

\* no codec was made for the request: nothing was read, run or written
NothingDispatched == served = 0 /\ seq = 0 /\ DOMAIN calls = {} /\ wire = <<>>

\* C16: a request whose method is not POST is answered 405 whatever its
\* headers (so the method is checked first), a POST whose Content-Type or
\* Accept is not application/json is answered 415, and in both cases no RPC
\* is dispatched and the body stays empty
C16_RefusedBeforeDispatch ==
  hphase = "done" =>
    /\ hreq.method # "POST" => (hstatus = 405 /\ NothingDispatched)
    /\ (hreq.method = "POST"
          /\ (BaseType(hreq.ct) # "application/json" \/ hreq.accept # "application/json"))
         => (hstatus = 415 /\ NothingDispatched)

\* a PUT whose media types are wrong as well was answered 405, not 415
C16_Witness ==
  /\ hphase = "done"
  /\ hreq = HTTPRequest("PUT", "text/json", "")
  /\ hstatus = 405

\* C17: a POST with Content-Type "application/json; charset=utf-8" and Accept
\* application/json is dispatched and is not answered 415
C17_ParametersAccepted ==
  (hphase = "done"
     /\ hreq = HTTPRequest("POST", "application/json; charset=utf-8", "application/json"))
    => (hstatus # 415 /\ served = 1)

\* C18: a POST whose Content-Type and Accept are both application/json has
\* ServeRequest invoked exactly once; its response is 204 with an empty body
\* iff the codec wrote nothing, and otherwise 200 with what the codec wrote as
\* the body; every response, 405 and 415 included, has Content-Type
\* application/json
C18_StatusFollowsCodec ==
  /\ hphase # "idle" => hheader = "application/json"
  /\ served <= 1
  /\ (hphase # "idle" /\ hreq = HTTPRequest("POST", "application/json", "application/json"))
       => served = 1
  /\ (hphase = "done" /\ hreq = HTTPRequest("POST", "application/json", "application/json"))
       => /\ hstatus = 204 <=> wire = <<>>
          /\ wire # <<>> => hstatus = 200
          /\ hstatus \in {200, 204}

\* both outcomes happen: this one is a call answered 200 with one response
\* object as the body
C18_Witness ==
  /\ hphase = "done"
  /\ hstatus = 200
  /\ Len(wire) = 1
  /\ wire[1].by = 1
  /\ wire[1].msg.result # Nil

\* ------------------------------------------------------------------ properties: batches
\* the elements of a batch that are not notifications, in the order of the batch
CallsOf(elems) == SelectSeq(elems, LAMBDA e : e # "N")

\* the response of a batch element that is a call
ReplyTo(e) == CASE e = "C1" -> "R1" [] e = "C2" -> "R2"

\* C19: while the connection is open, a batch of N >= 1 requests of which K are
\* notifications, once answered, has exactly one message on the connection, a
\* JSON array of the N-K responses in the order of their requests; when K = N
\* nothing is written for it
C19_BatchReplies ==
  ~closed =>
    \A s \in DOMAIN calls :
      (calls[s].phase = "done" /\ hist[s].top = "[" /\ Len(hist[s].elems) >= 1)
        => LET expected == CallsOf(hist[s].elems)
           IN  IF Len(expected) = 0
               THEN WrittenFor(s) = {}
               ELSE /\ Cardinality(WrittenFor(s)) = 1
                    /\ \A i \in WrittenFor(s) :
                         /\ wire[i].msg.kind = "array"
                         /\ Len(wire[i].msg.elems) = Len(expected)
                         /\ \A j \in DOMAIN expected :
                              wire[i].msg.elems[j] = ReplyTo(expected[j])

\* a batch of two calls around a notification was answered with the array of
\* the two responses
C19_Witness ==
  \E s \in DOMAIN calls :
    /\ calls[s].phase = "done"
    /\ hist[s].elems = <<"C1", "N", "C2">>
    /\ \E i \in WrittenFor(s) : wire[i].msg.elems = <<"R1", "R2">>

\* ------------------------------------------------------------------ properties: HTTP client connection
\* the round trip failed, or its status is not 200, 204 or 202, or its
\* Content-Type is not application/json
FailedRoundTrip(res) ==
  \/ res.err
  \/ res.status \notin {200, 204, 202}
  \/ res.ct # "application/json"

\* the value is a response with the given id and an error object of code -32603
IsInternalErrorFor(v, id) ==
  /\ v.top = "{"
  /\ DOMAIN v.o = {"jsonrpc", "id", "error"}
  /\ v.o["jsonrpc"] = V20
  /\ v.o["id"] = UintRaw(id)
  /\ DOMAIN v.e = {"code", "message"}
  /\ v.e["code"] = <<"-", "32603">>

\* the body at the head of conn.ready was made up by the worker of a request
\* whose round trip failed
HeadIsSynthesized ==
  /\ ready # <<>>
  /\ Head(ready).from \in DOMAIN finished
  /\ FailedRoundTrip(finished[Head(ready).from])

\* C20: the worker of a request that carries an id, when its round trip
\* fails, enqueues exactly one response, which echoes the id of the request
\* and carries a -32603 error; when that response is read, exactly the
\* pending call of that id fails: its entry is removed, the others stay, and
\* the input loop goes on
C20_FailedRoundTripFailsItsCall ==
  /\ [][\A i \in DOMAIN finished' \ DOMAIN finished :
          (cwire[i].msg.hasId /\ FailedRoundTrip(finished'[i]))
            => /\ Len(ready') = Len(ready) + 1
               /\ SubSeq(ready', 1, Len(ready)) = ready
               /\ ready'[Len(ready')].from = i
               /\ IsInternalErrorFor(ready'[Len(ready')].v, cwire[i].msg.id)]_vars
  /\ [][(HeadIsSynthesized /\ ReadStep /\ ready' = Tail(ready))
          => LET id == cwire[Head(ready).from].msg.id
             IN  /\ cret'.err = NoError
                 /\ cret'.r.Seq = id
                 /\ cret'.r.Error = ErrorJSON("-32603", <<cret'.v.e["message"][2]>>)
                 /\ id \in DOMAIN cpending
                 /\ cpending' = [n \in DOMAIN cpending \ {id} |-> cpending[n]]
                 /\ crd' = "reading"]_vars

\* a 200 with Content-Type application/jsonfail failed call 0 alone: its made-up
\* response was read while call 1 is still pending
C20_Witness ==
  /\ 1 \in DOMAIN finished
  /\ finished[1] = RoundTrip(FALSE, "application/jsonfail", 200)
  /\ cret.op = "ReadResponseHeader"
  /\ cret.err = NoError
  /\ cret.r.Seq = 0
  /\ cret.r.Error = ErrorJSON("-32603", <<"bad HTTP Content-Type">>)
  /\ DOMAIN cpending = {1}
  /\ crd = "reading"

\* C21: once Close was called on the codec of an HTTP client connection, a
\* Write on the connection fails and starts no round trip (no request is
\* handed to a worker) and a Read returns an error instead of a body
C21_ClosedConnectionFails ==
  [][cclosed => /\ cwire' = cwire
                /\ ~(ReadStep /\ ready' = Tail(ready) /\ cret'.dec = "ok")]_vars

\* ------------------------------------------------------------------ properties: WriteResponse
\* the step is the WriteResponse of the call with sequence number s, which
\* finds its entry in the id-translation table
Answers(s) ==
  /\ s \in DOMAIN calls
  /\ calls[s].phase # "done"
  /\ calls'[s].phase = "done"
  /\ s \in DOMAIN pending

\* the call is a JSONRPC2.Batch call that ran, so that its reply is a reply array
RepliesWithArray(s) == calls[s].method = "JSONRPC2.Batch" /\ calls[s].phase = "ready"

InvalidSeq == "invalid sequence number in response"

\* C23: the id-translation table holds at most one entry per sequence number,
\* added when the number is handed out and removed once, by the WriteResponse
\* that answers it, never to come back; a WriteResponse that finds no entry
\* (the number was never assigned, or was answered already) returns "invalid
\* sequence number in response", writes nothing and leaves the table as it was
C23_EntryRemovedOnce ==
  /\ [](\A s \in DOMAIN pending : s \in 1..seq /\ s \in DOMAIN hist)
  /\ [][\A s \in 1..seq : (s \notin DOMAIN pending) => (s \notin DOMAIN pending')]_vars
  /\ [][(DOMAIN pending' # DOMAIN pending /\ DOMAIN pending' \subseteq DOMAIN pending)
          => /\ ret'.op = "WriteResponse"
             /\ ret'.err # InvalidSeq
             /\ Cardinality(DOMAIN pending \ DOMAIN pending') = 1]_vars
  /\ [][(ret'.op = "WriteResponse")
          => /\ ret'.err = InvalidSeq <=> pending' = pending
             /\ ret'.err = InvalidSeq => wire' = wire]_vars

\* a WriteResponse came for a sequence number that was answered before: its
\* response is on the connection and the table is empty
C23_Witness ==
  /\ ret.op = "WriteResponse"
  /\ ret.err = InvalidSeq
  /\ DOMAIN pending = {}
  /\ \E s \in DOMAIN calls : calls[s].phase = "done" /\ WrittenFor(s) # {}

\* C24: no two WriteRequest executions overlap on the same codec: a
\* WriteRequest started by Notify is never in progress while the WriteRequest
\* of a Call or Go is
C24_EncoderHasOneOwner == ~(wpc = "encode" /\ npc = "encode")

\* C25: whatever the order in which the workers of an HTTP client connection
\* enqueued their responses, a response that is read is delivered to the
\* pending call whose id it carries: the rpc.Response names that id and the
\* method of that call, the entry of that call alone leaves the pending table,
\* and no response with that id was delivered before
C25_DeliveredToItsCall ==
  [][(ready # <<>> /\ ReadStep /\ ready' = Tail(ready) /\ cret'.err = NoError)
       => LET b == Head(ready)
              id == cwire[b.from].msg.id
          IN  /\ cwire[b.from].msg.hasId
              /\ b.v.o["id"] = UintRaw(id)
              /\ cret'.r.Seq = id
              /\ id \in DOMAIN cpending
              /\ cret'.r.ServiceMethod = cpending[id]
              /\ cret'.r.ServiceMethod = sent[id].method
              /\ cpending' = [n \in DOMAIN cpending \ {id} |-> cpending[n]]
              /\ id \notin readIds]_vars

\* the response of call 1 was delivered to call 1 while call 0 is still
\* pending, although the worker of call 0 has finished its round trip and its
\* response waits on the queue
C25_Witness ==
  /\ cret.op = "ReadResponseHeader"
  /\ cret.err = NoError
  /\ cret.r.Seq = 1
  /\ cret.r.ServiceMethod = "Svc.Sum"
  /\ DOMAIN cpending = {0}
  /\ readIds = {1}
  /\ ready # <<>>
  /\ cwire[Head(ready).from].seq = 0
  /\ Head(ready).v = Result(UintRaw(0))

\* the body of the response to the i-th Write is on conn.ready or is the body
\* the reader is in
Unread(i) ==
  \/ \E k \in DOMAIN ready : ready[k].from = i /\ IsResponseBody(ready[k])
  \/ cbody # Nil /\ cbody[1].from = i /\ IsResponseBody(cbody[1])

\* the step is one of the reader of the HTTP client connection
ReaderStep == ready' # ready \/ cbody' # cbody

C27_NoContentIsSuccess ==
  [][\A i \in DOMAIN finished' \ DOMAIN finished :
       (HasResponse(finished'[i])
          /\ finished'[i].status \in {StatusNoContent, StatusAccepted})
         => ready' = ready]_vars

\* the Error object of a message that is not framed: code -32601 for the
\* three method-lookup messages of net/rpc, -32000 for any other
AutoDetected(message) ==
  ErrorJSON(IF message[1] \in {"rpc: service/method request ill-formed",
                               "rpc: can't find service",
                               "rpc: can't find method"}
            THEN "-32601" ELSE "-32000",
            message)

\* the response object for raw id b and the outcome o of the call: the raw
\* id and either the reply value as result (null for a nil reply) or, as
\* error, the framed error string as it is or the Error object of the message
PassedThrough(b, o) ==
  [kind |-> "object",
   id |-> b,
   result |-> IF o.Error # Nil THEN Nil
              ELSE IF o.x.kind = "nil" THEN null ELSE o.x.raw,
   error |-> IF o.Error = Nil THEN Nil
             ELSE IF Framed(o.Error) THEN o.Error ELSE AutoDetected(o.Error),
   elems |-> <<>>]

\* C28: what a WriteResponse outside the batch branch emits for a request
\* with a non-null id is one object with the raw id and exactly one of result
\* and error: the reply value for an empty error string, the error string
\* verbatim when it is framed by braces, else the Error object with the
\* auto-detected code
C28_ResponseObject ==
  [][\A s \in 1..MaxReqs :
       (Answers(s) /\ ~RepliesWithArray(s) /\ pending[s] # Nil /\ pending[s] # null
          /\ wire' # wire)
         => \E o \in HostOutcomes(calls[s]) :
              wire' = Append(wire, [by |-> s, msg |-> PassedThrough(pending[s], o)])]_vars

\* the step is a whole WriteRequest, or its first half, for sequence number n,
\* method m and param p, called by Send or by Notify
WriteRequestStarts(n, m, p) ==
  \/ n = cseq /\ Send(m, p)
  \/ n = seqNotify /\ Notify(m, p)

\* the step is the second half of the WriteRequest of the staged request q
WriteRequestEnds(q) ==
  \/ q = wreq /\ WriteRequestEncode
  \/ q = nreq /\ NotifyEncode

\* the request gets an id: always with the codec of src/client.go, else unless
\* it is a notification
GetsId(n) == variant = "legacy" \/ n # seqNotify

\* C29: a WriteRequest whose param is of an unsupported kind returns the
\* -32603 error, writes nothing and leaves the pending table as it is; one
\* with a supported kind has inserted the entry (id, method) of a request with
\* an id before the encoder runs; when the encoder then fails, WriteRequest
\* returns the -32603 error, nothing is written and the table is left as it
\* is, so that the entry is still there unless a response with that id was
\* read in between
C29_FailedWriteRequest ==
  /\ [][\A n \in {cseq, seqNotify}, m \in ClientMethods \cup {"Svc.Log"} :
          WriteRequestStarts(n, m, "ptr-int")
            => /\ cret'.op = "WriteRequest"
               /\ cret'.err = NewError(errInternalCode, <<"unsupported param type">>)
               /\ cwire' = cwire
               /\ cpending' = cpending]_vars
  /\ [][\A n \in {cseq, seqNotify}, m \in ClientMethods \cup {"Svc.Log"},
           p \in ParamKinds \ {"ptr-int"} :
          WriteRequestStarts(n, m, p)
            => /\ cwire' = cwire
               /\ cpending' = IF GetsId(n) THEN (n :> m) @@ cpending ELSE cpending]_vars
  /\ [][\A q \in {wreq, nreq} :
          (WriteRequestEnds(q) /\ q.param = "badstruct")
            => /\ cret'.op = "WriteRequest"
               /\ cret'.err = NewError(errInternalCode, <<"json: unsupported type">>)
               /\ cwire' = cwire
               /\ cpending' = cpending
               /\ (GetsId(q.Seq) /\ q.Seq \notin readIds)
                    => /\ q.Seq \in DOMAIN cpending'
                       /\ cpending'[q.Seq] = q.ServiceMethod]_vars

\* call 0 was refused for its param and left no entry; the encoder failed on
\* call 1, whose entry is in the table; nothing was written
C29_Witness ==
  /\ cseq = 2
  /\ DOMAIN sent = {1}
  /\ sent[1].status = "failed"
  /\ DOMAIN cpending = {1}
  /\ cwire = <<>>
  /\ cret.op = "WriteRequest"
  /\ cret.err = NewError(errInternalCode, <<"json: unsupported type">>)

\* the reply array on the connection, written for sequence number s
ReplyArray(s, replies) ==
  [by |-> s,
   msg |-> [kind |-> "array", id |-> Nil, result |-> Nil, error |-> Nil, elems |-> replies]]

\* C30: the WriteResponse of a JSONRPC2.Batch call whose reply is a reply
\* array emits that array when it is not empty and nothing when it is empty,
\* whether the stored raw id is absent, null or one the client supplied; what
\* is emitted carries no id
C30_BatchBranchFirst ==
  [][\A s \in 1..MaxReqs :
       (Answers(s) /\ RepliesWithArray(s))
         => LET replies == Batch(calls[s].reqs)
            IN  IF replies = <<>> \/ closed
                THEN wire' = wire
                ELSE wire' = Append(wire, ReplyArray(s, replies))]_vars

\* a request object that named JSONRPC2.Batch itself, with the id 7, was
\* answered with a bare reply array
C30_Witness ==
  \E s \in DOMAIN calls :
    /\ calls[s].phase = "done"
    /\ calls[s].method = "JSONRPC2.Batch"
    /\ hist[s].top = "{"
    /\ "id" \in DOMAIN hist[s].o /\ hist[s].o["id"] = <<"7">>
    /\ \E i \in WrittenFor(s) : wire[i].msg.kind = "array" /\ wire[i].msg.elems # <<>>

\* the response was a 204 or a 202 with Content-Type application/json
NoContent(res) ==
  /\ ~res.err
  /\ res.ct = "application/json"
  /\ res.status \in {204, 202}

\* the i-th request written carries an id
PostHasId(i) == i \in DOMAIN cwire /\ cwire[i].msg.hasId

\* C31: when a request with an id is answered with 204 or 202 and Content-Type
\* application/json, its worker enqueues nothing, no response for its id is
\* ever read and its entry stays in the pending table for good; in every
\* other outcome of the round trip the worker enqueues exactly one reader for
\* the request, and nothing else ever enqueues; and every request written
\* with an id eventually has its round trip done, so that its reader is
\* eventually enqueued
C31_NoContentLeavesCallPending ==
  /\ [](\A i \in DOMAIN finished :
          (PostHasId(i) /\ NoContent(finished[i]))
            => /\ cwire[i].msg.id \in DOMAIN cpending
               /\ cwire[i].msg.id \notin readIds
               /\ \A k \in DOMAIN ready : ready[k].from # i
               /\ (cbody # Nil => cbody[1].from # i))
  /\ [][/\ \A i \in DOMAIN finished' \ DOMAIN finished :
            PostHasId(i)
              => IF NoContent(finished'[i])
                 THEN ready' = ready
                 ELSE /\ Len(ready') = Len(ready) + 1
                      /\ SubSeq(ready', 1, Len(ready)) = ready
                      /\ ready'[Len(ready')].from = i
        /\ Len(ready') > Len(ready)
             => Cardinality(DOMAIN finished' \ DOMAIN finished) = 1
        /\ DOMAIN finished \subseteq DOMAIN finished']_vars
  /\ \A i \in 1..MaxPosts : PostHasId(i) ~> (i \in DOMAIN finished)

\* call 0 was answered with a 204 and is still pending, while call 1 got its
\* response, which the reader has read to its end
C31_Witness ==
  /\ \E i \in DOMAIN finished :
       /\ PostHasId(i)
       /\ cwire[i].msg.id = 0
       /\ finished[i] = RoundTrip(FALSE, contentType, StatusNoContent)
  /\ DOMAIN cpending = {0}
  /\ readIds = {1}
  /\ ready = <<>>
  /\ cbody = Nil
  /\ crd = "reading"

====
